---- MODULE Spec2Model ----
(***************************************************************************)
(* Transcript acquisition and normalization pipeline of the stash backend  *)
(* (backend/services/youtube_fetcher.py): URL identifier extraction, the   *)
(* proxied (ScraperAPI) and direct (youtube-transcript-api) adapters, the  *)
(* payload normalizer and the get_transcript orchestrator; the video       *)
(* service (backend/services/video_service.py: save, get, delete, update)  *)
(* behind the authentication of backend/main.py, over the saved_videos     *)
(* table of backend/services/database.py; and the signup of                *)
(* backend/services/user_service.py over the users table.                  *)
(*                                                                         *)
(* Python strings that the code inspects (URLs, caption texts) are         *)
(* sequences of one-character strings; opaque strings (exception class     *)
(* names, messages, language codes) are TLA+ strings.                      *)
(***************************************************************************)
EXTENDS Integers, Sequences, FiniteSets, TLC

\* ------------------------------------------------------------------ bounds
\* longest caption text drawn for a snippet
MaxTextLen == 2
\* longest text of a <text> node in a scraped caption document
MaxNodeTextLen == 1
\* longest payload (number of snippets) handed to the normalizer
MaxSnippets == 2
\* longest payload the direct adapter returns inside get_transcript
MaxDirectItems == 2
\* longest caption-track list in a scraped player response
MaxTracks == 2
\* most <text> nodes in a scraped caption document
MaxNodes == 2
\* most query parameters of a URL handed to the extractor alone
MaxParams == 2
\* longest caption-track list handed to the track selection alone
MaxSelTracks == 3

\* ------------------------------------------------------------ Python text
\* characters caption texts are drawn from: a letter and a blank
TextChars == {"a", " "}

\* Python None where a str is expected by the caller (language, error, ...)
None == "None"

\* the sequences over S of length at most n
SeqUpTo(S, n) == UNION {[1..k -> S] : k \in 0..n}

\* caption texts
TextValues == SeqUpTo(TextChars, MaxTextLen)

\* characters str.strip() removes
IsSpace(c) == c \in {" ", "\n", "\t"}

RECURSIVE LStrip(_)
\* str.lstrip()
LStrip(s) == IF s # <<>> /\ IsSpace(Head(s)) THEN LStrip(Tail(s)) ELSE s

RECURSIVE RStrip(_)
\* str.rstrip()
RStrip(s) == IF s # <<>> /\ IsSpace(s[Len(s)]) THEN RStrip(SubSeq(s, 1, Len(s) - 1)) ELSE s

\* str.strip()
Strip(s) == RStrip(LStrip(s))

RECURSIVE Join(_, _)
\* sep.join(parts) for a sequence of strings
Join(sep, parts) ==
    IF parts = <<>> THEN <<>>
    ELSE IF Len(parts) = 1 THEN parts[1]
    ELSE parts[1] \o sep \o Join(sep, Tail(parts))

\* [f(x) for x in xs]
Map(f(_), xs) == [i \in 1..Len(xs) |-> f(xs[i])]

\* --------------------------------------------------------- Python values
\* A value found under a "text" key or attribute: absent, None, a number
\* (here 5) or a str.
Missing == [t |-> "missing", s |-> <<>>]
PyNone == [t |-> "none", s |-> <<>>]
PyInt == [t |-> "int", s |-> <<"5">>]
PyStr(s) == [t |-> "str", s |-> s]

TextFieldValues == {Missing, PyNone, PyInt} \cup {PyStr(s) : s \in TextValues}

\* An element of a payload list: a dict (val is its "text" entry), a str,
\* an object (val is its .text attribute) or a number.
DictElem(v) == [kind |-> "dict", val |-> v]
StrElem(s) == [kind |-> "str", val |-> PyStr(s)]
ObjElem(v) == [kind |-> "obj", val |-> v]
IntElem == [kind |-> "int", val |-> PyInt]

Elements ==
    {DictElem(v) : v \in TextFieldValues} \cup {StrElem(s) : s \in TextValues}
        \cup {ObjElem(v) : v \in TextFieldValues} \cup {IntElem}

\* language / is_generated attributes a payload object may carry: neither,
\* or a language with the flag set or cleared
MetaValues ==
    {[language |-> None, is_generated |-> None],
     [language |-> "en", is_generated |-> "True"],
     [language |-> "en", is_generated |-> "False"]}
NoMeta == [language |-> None, is_generated |-> None]

\* A payload: an object whose .snippets is a list ("snippets"), a plain
\* list ("list"), or anything else ("other": None, a dict, an object whose
\* .snippets is not a list).  A list has no language/is_generated attribute.
SnippetsPayload(items, lang, gen) ==
    [shape |-> "snippets", items |-> items, language |-> lang, is_generated |-> gen]
ListPayload(items) ==
    [shape |-> "list", items |-> items, language |-> None, is_generated |-> None]
OtherPayload(lang, gen) ==
    [shape |-> "other", items |-> <<>>, language |-> lang, is_generated |-> gen]

\* the payload of the given shape
MakePayload(shape, items, lang, gen) ==
    CASE shape = "snippets" -> SnippetsPayload(items, lang, gen)
      [] shape = "list" -> ListPayload(items)
      [] OTHER -> OtherPayload(lang, gen)

\* bool(v) of a text value
Truthy(v) == \/ v.t = "int"
             \/ v.t = "str" /\ v.s # <<>>

\* str(v) of a text value ("" stands for the default of a missing key)
StrOf(v) == CASE v.t = "missing" -> <<>>
              [] v.t = "none" -> <<"N", "o", "n", "e">>
              [] OTHER -> v.s

\* getattr(s, "text", ""): only objects have the attribute
GetAttrText(e) == IF e.kind = "obj" /\ e.val.t # "missing" THEN e.val ELSE PyStr(<<>>)

\* item.get("text", "") of a dict
DictGetText(e) == IF e.val.t = "missing" THEN PyStr(<<>>) ELSE e.val

\* ------------------------------------------------------------- normalizer
\* What a call of the normalizer produces: raised = "" and a record, or the
\* class name of the exception it raised.

\* the returned record as a buggy variant: a call that joined no text reports
\* no segment
NormOkCountsJoined(text, count, lang, gen) ==
    [raised |-> "", transcript |-> text,
     segments_count |-> IF text = <<>> THEN 0 ELSE count,
     language |-> lang, is_generated |-> gen]

\* the record the normalizer returns (lines 208-213, 218-223, 227-232, 235-240)
NormOk(text, count, lang, gen) ==
    [raised |-> "", transcript |-> text, segments_count |-> count,
     language |-> lang, is_generated |-> gen]

\* an exception of class cls leaves the normalizer
NormRaise(cls) ==
    [raised |-> cls, transcript |-> <<>>, segments_count |-> 0,
     language |-> None, is_generated |-> None]

\* " ".join(t for t in texts if t) over attribute values
JoinTruthy(vals) ==
    LET kept == SelectSeq(vals, Truthy)
    IN IF \E i \in 1..Len(kept) : kept[i].t # "str"
       THEN NormRaise("TypeError")
       ELSE [raised |-> "", text |-> Join(<<" ">>, Map(StrOf, kept))]

\* " ".join(payload) of the list-of-strings branch
StrBranch(items) == Join(<<" ">>, Map(LAMBDA e : e.val.s, items))

\* YouTubeFetcher._join_text_from_payload
join_text_from_payload(payload) ==
    LET language == payload.language
        is_generated == payload.is_generated
        items == payload.items
    IN IF payload.shape = "snippets"
       THEN LET j == JoinTruthy(Map(GetAttrText, items))
            IN IF j.raised # "" THEN j
               ELSE NormOk(j.text, Len(items), language, is_generated)
       ELSE IF payload.shape = "list" /\ items # <<>> /\ items[1].kind = "dict"
       THEN IF \E i \in 1..Len(items) : items[i].kind # "dict"
            THEN NormRaise("AttributeError")
            ELSE LET texts == Map(LAMBDA e : StrOf(DictGetText(e)), items)
                 IN NormOk(Join(<<" ">>, SelectSeq(texts, LAMBDA s : s # <<>>)),
                           Len(items), language, is_generated)
       ELSE IF payload.shape = "list" /\ items # <<>> /\ items[1].kind = "str"
       THEN IF \E i \in 1..Len(items) : items[i].kind # "str"
            THEN NormRaise("TypeError")
            ELSE NormOk(StrBranch(items), Len(items), language, is_generated)
       ELSE NormOk(<<>>, 0, language, is_generated)

\* ---------------------------------------------------------- Python str ops
\* s[i:] and s[:i] with 1-based positions
From(s, i) == SubSeq(s, i, Len(s))
Upto(s, i) == SubSeq(s, 1, i)

\* s.startswith(p)
StartsWith(s, p) == Len(p) <= Len(s) /\ SubSeq(s, 1, Len(p)) = p

\* positions at which sub occurs in s
Occurrences(s, sub) == {i \in 1..Len(s) : StartsWith(From(s, i), sub)}

\* s.find(sub) + 1: position of the first occurrence, 0 when there is none
Find(s, sub) ==
    IF Occurrences(s, sub) = {} THEN 0
    ELSE CHOOSE i \in Occurrences(s, sub) : \A j \in Occurrences(s, sub) : i <= j

\* sub in s
Contains(s, sub) == Find(s, sub) # 0

RECURSIVE Split(_, _)
\* s.split(sep)
Split(s, sep) ==
    LET i == Find(s, sep)
    IN IF i = 0 THEN <<s>>
       ELSE <<Upto(s, i - 1)>> \o Split(From(s, i + Len(sep)), sep)

\* s.split(sep, 1) as a buggy variant: the string is never cut
Split1Uncut(s, sep) == <<s>>

\* s.split(sep, 1)
Split1(s, sep) ==
    LET i == Find(s, sep)
    IN IF i = 0 THEN <<s>> ELSE <<Upto(s, i - 1), From(s, i + Len(sep))>>

RECURSIVE LStripChar(_, _)
\* s.lstrip(c) for a single character c
LStripChar(s, c) == IF s # <<>> /\ Head(s) = c THEN LStripChar(Tail(s), c) ELSE s

\* --------------------------------------------------------------- urllib
Alpha ==
    {"a", "b", "c", "d", "e", "f", "g", "h", "i", "j", "k", "l", "m",
     "n", "o", "p", "q", "r", "s", "t", "u", "v", "w", "x", "y", "z"}
Digits == {"0", "1", "2", "3", "4", "5", "6", "7", "8", "9"}
\* urllib.parse.scheme_chars
SchemeChars == Alpha \cup Digits \cup {"+", "-", "."}

\* position of the first of the characters cs in s at or after position i,
\* Len(s) + 1 when there is none
FirstOf(s, cs, i) ==
    LET hits == {k \in i..Len(s) : s[k] \in cs}
    IN IF hits = {} THEN Len(s) + 1 ELSE CHOOSE k \in hits : \A j \in hits : k <= j

\* urllib.parse.urlparse(url): scheme, netloc, path, query, fragment
\* (inputs carry no ';' params, no '%' escapes and no '[' IPv6 literal)
urlparse(url) ==
    LET colon == Find(url, <<":">>)
        hasScheme == /\ colon > 1
                     /\ url[1] \in Alpha
                     /\ \A k \in 1..(colon - 1) : url[k] \in SchemeChars
        scheme == IF hasScheme THEN Upto(url, colon - 1) ELSE <<>>
        r1 == IF hasScheme THEN From(url, colon + 1) ELSE url
        hasNetloc == StartsWith(r1, <<"/", "/">>)
        delim == FirstOf(r1, {"/", "?", "#"}, 3)
        netloc == IF hasNetloc THEN SubSeq(r1, 3, delim - 1) ELSE <<>>
        r2 == IF hasNetloc THEN From(r1, delim) ELSE r1
        f == Split1(r2, <<"#">>)
        q == Split1(f[1], <<"?">>)
    IN [scheme |-> scheme, netloc |-> netloc, path |-> q[1],
        query |-> IF Len(q) = 2 THEN q[2] ELSE <<>>,
        fragment |-> IF Len(f) = 2 THEN f[2] ELSE <<>>]

\* parse_qs(query).get(name, [None])[0]: the first non-blank value of the
\* parameter, <<>> standing for None (blank values are dropped by parse_qs)
QsFirst(query, name) ==
    LET pairs == Map(LAMBDA p : Split1(p, <<"=">>), Split(query, <<"&">>))
        hits == {i \in 1..Len(pairs) :
                    Len(pairs[i]) = 2 /\ pairs[i][1] = name /\ pairs[i][2] # <<>>}
    IN IF hits = {} THEN <<>>
       ELSE pairs[CHOOSE i \in hits : \A j \in hits : i <= j][2]

\* ---------------------------------------------------- identifier extractor
S_youtu_be == <<"y", "o", "u", "t", "u", ".", "b", "e", "/">>
S_v_eq == <<"v", "=">>

ExtractOk(id) == [raised |-> "", id |-> id]
ExtractRaise(cls) == [raised |-> cls, id |-> <<>>]

\* YouTubeFetcher.extract_video_id
extract_video_id(url) ==
    LET raw == Strip(url)
    IN IF Contains(raw, S_youtu_be)
       THEN LET path_id == LStripChar(urlparse(raw).path, "/")
            IN IF path_id # <<>>
               THEN ExtractOk(Split(path_id, <<"/">>)[1])
               ELSE ExtractOk(Split(Split(raw, S_youtu_be)[2], <<"?">>)[1])
       ELSE IF Contains(raw, S_v_eq)
       THEN LET v == QsFirst(urlparse(raw).query, <<"v">>)
            IN IF v # <<>>
               THEN ExtractOk(v)
               ELSE ExtractOk(Split(Split(raw, S_v_eq)[2], <<"&">>)[1])
       ELSE ExtractRaise("ValueError")

\* URLs handed to get_transcript
S_https == <<"h", "t", "t", "p", "s", ":", "/", "/">>
S_youtube == <<"w", "w", "w", ".", "y", "o", "u", "t", "u", "b", "e", ".", "c", "o", "m">>
S_watch == <<"/", "w", "a", "t", "c", "h">>
S_id == <<"a", "b", "c">>
S_t_eq == <<"t", "=", "5", "s">>
S_other == <<"n", "o", "t", "a", "y", "o", "u", "t", "u", "b", "e", "u", "r", "l", ".", "c", "o", "m">>
S_rev_eq == <<"r", "e", "v", "=", "1">>

Urls ==
    { S_https \o S_youtube \o S_watch \o <<"?">> \o S_v_eq \o S_id,
      <<" ">> \o S_https \o S_youtube \o S_watch \o <<"?">> \o S_v_eq \o S_id
          \o <<"&">> \o S_t_eq \o <<" ">>,
      S_https \o S_youtube \o S_watch \o <<"?">> \o S_t_eq \o <<"&">> \o S_v_eq \o S_id,
      S_https \o S_youtube \o S_watch \o <<"?">> \o S_v_eq,
      S_https \o S_youtu_be \o S_id,
      S_https \o S_youtu_be \o S_id \o <<"?">> \o S_t_eq,
      S_https \o S_youtu_be,
      S_youtu_be \o S_id,
      S_https \o S_other,
      S_https \o S_other \o <<"/", "?">> \o S_rev_eq }

\* URLs handed to extract_video_id alone, by their parts: blanks around the
\* URL, scheme, host, path and query parameters
S_short == <<"y", "o", "u", "t", "u", ".", "b", "e">>
S_rest == <<"/", "x">>

UrlPads == {<<>>, <<" ">>}
UrlSchemes == {S_https, <<>>}
UrlHosts == {S_youtube, S_short, S_other}
UrlPaths == {<<>>, <<"/">>, S_watch, <<"/">> \o S_id, <<"/">> \o S_id \o S_rest}

\* name=value parameters: v with and without a value, a time offset, a
\* parameter whose name ends in v, a parameter whose value is a short link
QueryParams ==
    {[name |-> <<"v">>, value |-> S_id],
     [name |-> <<"v">>, value |-> <<>>],
     [name |-> <<"t">>, value |-> <<"5", "s">>],
     [name |-> <<"r", "e", "v">>, value |-> <<"1">>],
     [name |-> <<"u">>, value |-> S_youtu_be]}

ParamText(p) == p.name \o <<"=">> \o p.value

\* the URL string made of the parts
UrlOf(parts) ==
    parts.lead \o parts.scheme \o parts.host \o parts.path
        \o (IF parts.params = <<>> THEN <<>>
            ELSE <<"?">> \o Join(<<"&">>, Map(ParamText, parts.params)))
        \o parts.trail

\* before a stand-alone call
NoUrlParts ==
    [lead |-> <<>>, scheme |-> <<>>, host |-> <<>>, path |-> <<>>, params |-> <<>>,
     trail |-> <<>>]
NoExtract == ExtractRaise("not_called")

\* ------------------------------------------------ proxied adapter (scrape)
\* ordinal order of the characters language codes are made of
AsciiOrder == <<"-", "A", "B", "G", "S", "U", "d", "e", "f", "n", "r">>
Ord(c) == CHOOSE i \in 1..Len(AsciiOrder) : AsciiOrder[i] = c

RECURSIVE StrLess(_, _)
\* a < b on Python str
StrLess(a, b) ==
    IF b = <<>> THEN FALSE
    ELSE IF a = <<>> THEN TRUE
    ELSE IF Head(a) # Head(b) THEN Ord(Head(a)) < Ord(Head(b))
    ELSE StrLess(Tail(a), Tail(b))

L_en == <<"e", "n">>
L_en_US == <<"e", "n", "-", "U", "S">>
L_en_AU == <<"e", "n", "-", "A", "U">>
L_fr == <<"f", "r">>
L_de == <<"d", "e">>
\* language codes of caption tracks; <<>> is a track without languageCode
LanguageCodes == {L_en, L_en_US, L_en_AU, L_fr, L_de, <<>>}

\* a captionTracks entry: kind is "asr" or "" (authored / key absent),
\* baseUrl tells whether the entry has a non-empty baseUrl
Tracks == [languageCode : LanguageCodes, kind : {"asr", ""}, baseUrl : BOOLEAN]

\* priority(track) as a buggy variant: auto-generated English tracks come
\* before authored ones
PriorityAsrFirst(track) ==
    LET en == StartsWith(track.languageCode, L_en)
    IN IF en /\ track.kind # "asr" THEN 1
       ELSE IF en /\ track.kind = "asr" THEN 0
       ELSE IF track.kind # "asr" THEN 2
       ELSE 3

\* priority(track) of _fetch_transcript_via_scraperapi: the first component
Priority(track) ==
    LET en == StartsWith(track.languageCode, L_en)
    IN IF en /\ track.kind # "asr" THEN 0
       ELSE IF en /\ track.kind = "asr" THEN 1
       ELSE IF track.kind # "asr" THEN 2
       ELSE 3

\* priority(a) < priority(b) on the tuples (rank, lang)
PriorityLess(a, b) ==
    \/ Priority(a) < Priority(b)
    \/ Priority(a) = Priority(b) /\ StrLess(a.languageCode, b.languageCode)

\* index of sorted(tracks, key=priority)[0]: the sort is stable, so the
\* first of the minimal tracks
ChosenIndex(tracks) ==
    CHOOSE i \in 1..Len(tracks) :
        /\ \A j \in 1..Len(tracks) : ~PriorityLess(tracks[j], tracks[i])
        /\ \A j \in 1..(i - 1) : PriorityLess(tracks[i], tracks[j])

\* what the proxy answers for the video page: the request raises, the body
\* is blank, the body has no ytInitialPlayerResponse assignment, the blob is
\* not JSON, the JSON has a non-dict where a dict is expected, or the JSON
\* parses and carries the caption tracks
PageResponses ==
    {[kind |-> k, tracks |-> <<>>] :
        k \in {"raise", "empty", "no_match", "bad_json", "bad_shape"}}
    \cup {[kind |-> "json", tracks |-> ts] : ts \in SeqUpTo(Tracks, MaxTracks)}

\* characters of a <text> node: a letter and a line break
NodeChars == {"a", "\n"}
NodeTexts == SeqUpTo(NodeChars, MaxNodeTextLen)

\* what the proxy answers for the caption URL: the request raises, the body
\* is blank, the body is not XML, or a document with <text> nodes
CaptionResponses ==
    {[kind |-> k, nodes |-> <<>>] : k \in {"raise", "empty", "bad_xml"}}
    \cup {[kind |-> "xml", nodes |-> ns] : ns \in SeqUpTo(NodeTexts, MaxNodes)}

\* html.unescape(raw).replace("\n", " ").strip() of a node text
\* (node texts carry no '&', so unescape leaves them as they are)
Cleaned(raw) == Strip([i \in 1..Len(raw) |-> IF raw[i] = "\n" THEN " " ELSE raw[i]])

\* fetch_with_scraperapi as a buggy variant: no check of the key
HttpIssuedAlways(key) == TRUE

\* fetch_with_scraperapi: the HTTP request is issued only with a non-empty
\* key; otherwise ValueError is raised before any request
HttpIssued(key) == key = "set"

\* result of the proxied adapter: isNone (the soft failure) or the segment
\* list; stage names the statement the adapter returned from
ProxyNone(stage) == [isNone |-> TRUE, segments |-> <<>>, stage |-> stage]
ProxySome(segs) == [isNone |-> FALSE, segments |-> segs, stage |-> "segments"]

\* the exception raised at the statement a stage names: by the proxy request
\* (requests), by fetch_with_scraperapi without a key, by json.loads, by .get
\* on a non-dict, by ET.fromstring; "" for a stage that raises nothing
StageException(stage) ==
    CASE stage = "raise" -> "HTTPError"
      [] stage = "no_key" -> "ValueError"
      [] stage = "bad_json" -> "JSONDecodeError"
      [] stage = "bad_shape" -> "AttributeError"
      [] stage = "bad_xml" -> "ParseError"
      [] OTHER -> ""

\* the except clauses of the adapter as a buggy variant: only ValueError is
\* caught
AdapterCatchesValueErrorOnly(cls) == cls = "ValueError"

\* lines 87, 147 and 151, except Exception: every exception class is caught
AdapterCatches(cls) == TRUE

\* the exception of the stage leaves the adapter
Escapes(stage) == StageException(stage) # "" /\ ~AdapterCatches(StageException(stage))

\* _fetch_transcript_via_scraperapi, lines 64-125: up to the choice of the
\* caption track.  "fetch_caption" when the adapter goes on to fetch the
\* chosen track, otherwise the statement it returns None from.
page_stage(use, key, page) ==
    IF ~use THEN "disabled"
    ELSE IF ~HttpIssued(key) THEN "no_key"
    ELSE IF page.kind # "json" THEN page.kind
    ELSE IF page.tracks = <<>> THEN "no_tracks"
    ELSE IF ~page.tracks[ChosenIndex(page.tracks)].baseUrl THEN "no_base_url"
    ELSE "fetch_caption"

\* _fetch_transcript_via_scraperapi, lines 126-153: the caption document
caption_result(key, caption) ==
    IF ~HttpIssued(key) THEN ProxyNone("no_key")
    ELSE IF caption.kind # "xml" THEN ProxyNone(caption.kind)
    ELSE LET cleaned == SelectSeq(Map(Cleaned, caption.nodes), LAMBDA t : t # <<>>)
             segments == Map(LAMBDA t : DictElem(PyStr(t)), cleaned)
         IN IF segments # <<>> THEN ProxySome(segments) ELSE ProxyNone("no_segments")

\* --------------------------------------------------------- direct adapter
\* exception classes the transcript library and its transport raise
DirectErrorClasses ==
    {"TranscriptsDisabled", "NoTranscriptFound", "ConnectionError", "ParseError",
     "AttributeError"}
\* str(e) of a raised exception; "" for an exception without message
ErrorMessages ==
    {"", "Subtitles are disabled for this video", "Transcript not found",
     "Connection timed out"}

DirectElements ==
    {DictElem(PyStr(<<>>)), DictElem(PyStr(<<"a">>)), ObjElem(PyStr(<<>>)),
     ObjElem(PyStr(<<"a">>)), StrElem(<<"a">>)}

\* payloads the library call hands back (typed Any by the code)
DirectPayloads ==
    {SnippetsPayload(items, "en", "True") : items \in SeqUpTo(DirectElements, MaxDirectItems)}
    \cup {ListPayload(items) : items \in SeqUpTo(DirectElements, MaxDirectItems)}
    \cup {OtherPayload(None, None)}

DirectRaise(cls, msg) == [raised |-> cls, msg |-> msg, payload |-> OtherPayload(None, None)]
DirectReturn(p) == [raised |-> "", msg |-> "", payload |-> p]

\* outcomes of one library call
DirectOutcomes ==
    {DirectRaise(cls, msg) : cls \in DirectErrorClasses, msg \in ErrorMessages}
    \cup {DirectReturn(p) : p \in DirectPayloads}

\* lines 277-282: self.api.fetch, and on AttributeError the legacy
\* YouTubeTranscriptApi.get_transcript
direct_fetch(fetchOut, legacyOut) ==
    IF fetchOut.raised = "AttributeError" THEN legacyOut ELSE fetchOut

\* ------------------------------------------------------------------ state
VARIABLES
    SCRAPER_API_KEY,  \* the environment variable: "unset", "empty" or "set"
    use_scraper,      \* YouTubeFetcher.use_scraper, fixed by __init__
    pc,               \* position of the get_transcript call in progress
    url,              \* its argument
    video_id,         \* its local video_id (NoneId while None)
    proxy_segments,   \* its local proxy_segments: what the proxied adapter returned
    direct_out,       \* outcome of the direct library call (payload or exception)
    normalized,       \* its local normalized (NoNorm while None)
    attempts,         \* the adapters attempted so far, in order
    proxy_fetches,    \* HTTP requests issued through the proxy by this call
    chosen,           \* the caption track the proxied adapter fetches or returned
                      \* segments of (NoTrack otherwise)
    direct_calls,     \* library entry points called by the direct adapter
    result,           \* the dict the call returned
    norm_in,          \* argument of a stand-alone normalizer call
    norm_out,         \* and what the normalizer made of it
    ext_in,           \* parts of the URL of a stand-alone extract_video_id call
    ext_out,          \* and what the extractor made of the URL
    sel_in,           \* the captionTracks list of a stand-alone track selection
    sel_out,          \* and the track sorted(tracks, key=priority)[0] gave
    videos,           \* the rows of the saved_videos table
    summarizer,       \* VideoService.summarizer is not None
    req,              \* the calls of the video service in flight, by request
    users,            \* the rows of the users table
    auth              \* the signup calls in flight, by request

vars ==
    <<SCRAPER_API_KEY, use_scraper, pc, url, video_id, proxy_segments, direct_out,
      normalized, attempts, proxy_fetches, chosen, direct_calls, result, norm_in,
      norm_out, ext_in, ext_out, sel_in, sel_out, videos, summarizer, req, users, auth>>

\* the variables of the video service
service == <<videos, summarizer, req, users, auth>>

accounts == <<users, auth>>

\* the variables of the stand-alone calls
standalone == <<norm_in, norm_out, ext_in, ext_out, sel_in, sel_out>>

\* video_id = None
NoneId == <<"None">>

\* locals before they are assigned
NoProxy == ProxyNone("not_called")
NoTrack == [languageCode |-> <<>>, kind |-> "", baseUrl |-> FALSE]
NoDirect == DirectRaise("", "")
NoNorm == NormRaise("not_called")

\* the success dict of get_transcript (lines 286-293)
Success(id, n) ==
    [success |-> TRUE, video_id |-> id, transcript |-> n.transcript,
     segments_count |-> n.segments_count, language |-> n.language,
     is_generated |-> n.is_generated, error |-> "", error_type |-> ""]

\* the failure dict as a buggy variant: the identifier is left out
FailureWithoutId(cls, msg, id) ==
    [success |-> FALSE, video_id |-> NoneId, transcript |-> <<>>, segments_count |-> 0,
     language |-> None, is_generated |-> None,
     error |-> IF msg # "" THEN msg ELSE cls, error_type |-> cls]

\* the failure dict of get_transcript (lines 297-302) for exception cls(msg)
Failure(cls, msg, id) ==
    [success |-> FALSE, video_id |-> id, transcript |-> <<>>, segments_count |-> 0,
     language |-> None, is_generated |-> None,
     error |-> IF msg # "" THEN msg ELSE cls, error_type |-> cls]

NoResult == Failure("", "", NoneId)

\* the except clause as a buggy variant: only ValueError is caught
CaughtValueErrorOnly(cls) == cls = "ValueError"

\* line 295, except Exception: every exception class raised below it is caught
Caught(cls) == TRUE

\* how the call ends: pc "done" with the returned dict, or "raised" when an
\* exception leaves get_transcript
Ends(pcv, res) == [pc |-> pcv, result |-> res]

\* lines 295-302: an exception cls(msg) raised inside the try block
OnException(cls, msg, id) ==
    IF Caught(cls) THEN Ends("done", Failure(cls, msg, id)) ELSE Ends("raised", NoResult)

\* str(e) of the exceptions the normalizer and the result lines raise
RaisedMessage(cls) ==
    CASE cls = "AttributeError" -> "'str' object has no attribute 'get'"
      [] cls = "TypeError" -> "sequence item: expected str instance"
      [] OTHER -> ""

\* lines 286-293 with normalized = n: subscripting None raises TypeError, and
\* an exception the normalizer raised is handled like any other
Finish(id, n) ==
    IF n.raised = "" THEN Ends("done", Success(id, n))
    ELSE IF n = NoNorm THEN OnException("TypeError", "'NoneType' object is not subscriptable", id)
    ELSE OnException(n.raised, RaisedMessage(n.raised), id)

\* the first adapter as a buggy variant: the direct adapter always goes first
FirstAdapterDirect(use) == "direct"

\* line 261: the proxied adapter goes first when use_scraper is set
FirstAdapter(use) == IF use THEN "proxy_page" ELSE "direct"

\* the fallback test as a buggy variant: the direct adapter is never tried
\* after the proxied one
NeedsDirectNever(n) == FALSE

\* line 275, if normalized is None: the direct adapter is tried
NeedsDirect(n) == n = NoNorm

\* ---------------------------------------------------------- video service
\* users saving videos, and the requests the server handles at a time
UserIds == {1, 2}
Requests == {1, 2}

\* URLs handed to save_video: two URLs of one video, a URL of another video,
\* and a URL the extractor rejects
S_id2 == <<"x", "y", "z">>
ServiceUrls ==
    {S_https \o S_youtu_be \o S_id,
     S_https \o S_youtube \o S_watch \o <<"?">> \o S_v_eq \o S_id,
     S_https \o S_youtu_be \o S_id2,
     S_https \o S_other}

\* fetcher.extract_video_id on each of these URLs
ExtractedIds == [u \in ServiceUrls |-> extract_video_id(u)]

\* what fetcher.get_transcript hands back for a URL with identifier id
FetchResults(id) ==
    {Success(id, NormOk(<<"a">>, 1, "en", "True")),
     Failure("ConnectionError", "Connection timed out", id)}

\* what summarizer.summarize hands back
SummaryResults ==
    {[success |-> TRUE, summary |-> "summary"], [success |-> FALSE, summary |-> None]}

\* a row of saved_videos; NoRow is None (no such row)
Row(u, id, user, tr, summary) ==
    [url |-> u, video_id |-> id, user_id |-> user, raw_transcript |-> tr.transcript,
     ai_summary |-> summary, language |-> tr.language, is_generated |-> tr.is_generated,
     segments_count |-> tr.segments_count, title |-> None]
NoRow == Row(<<>>, NoneId, 0, NoResult, None)

\* DatabaseService.get_video_by_id as a buggy variant: no row is ever found
get_video_by_id_blind(rows, id) == NoRow

\* DatabaseService.get_video_by_id: the row with the video_id (video_id is
\* UNIQUE), None when there is none
get_video_by_id(rows, id) ==
    IF \E row \in rows : row.video_id = id
    THEN CHOOSE row \in rows : row.video_id = id
    ELSE NoRow

\* what save_video returns, or the exception that leaves it
Response(success, message, error, error_type, data) ==
    [success |-> success, message |-> message, error |-> error,
     error_type |-> error_type, data |-> data, raised |-> ""]
ResponseRaise(cls) ==
    [success |-> FALSE, message |-> "", error |-> "", error_type |-> "", data |-> NoRow,
     raised |-> cls]
NoResponse == Response(FALSE, "", "", "", NoRow)

\* the table is unique per video_id and owner instead of per video_id
repository_save_per_user(rows, row) ==
    IF \E old \in rows : old.video_id = row.video_id /\ old.user_id = row.user_id
    THEN [rows |-> rows,
          response |-> Response(FALSE, "", "Video already exists: UNIQUE constraint failed",
                                "", NoRow)]
    ELSE [rows |-> rows \cup {row}, response |-> Response(TRUE, "", "", "", row)]

\* DatabaseService.save_video: the INSERT fails on the UNIQUE video_id
\* (IntegrityError), otherwise the inserted row is read back
repository_save(rows, row) ==
    IF \E old \in rows : old.video_id = row.video_id
    THEN [rows |-> rows,
          response |-> Response(FALSE, "", "Video already exists: UNIQUE constraint failed",
                                "", NoRow)]
    ELSE [rows |-> rows \cup {row}, response |-> Response(TRUE, "", "", "", row)]

\* DatabaseService.delete_video: the rows of the video_id are deleted; no row
\* deleted is 'Video not found'
repository_delete(rows, id) ==
    LET kept == {row \in rows : row.video_id # id}
    IN [rows |-> kept,
        response |-> IF kept # rows
                     THEN Response(TRUE, "", "", "", NoRow)
                     ELSE Response(FALSE, "", "Video not found", "", NoRow)]

\* an update dictionary: the keys it has, and the value under each
UpdateDict(keys) == [keys |-> keys, ai_summary |-> "note", title |-> "title", user_id |-> 2]
NoUpdates == [keys |-> {}, ai_summary |-> None, title |-> None, user_id |-> 0]

\* the owner is among the fields that may be updated
allowed_fields_with_owner == {"ai_summary", "title", "user_id"}

\* DatabaseService.update_video, line 243
allowed_fields == {"ai_summary", "title"}

\* DatabaseService.update_video: the allowed fields the dictionary has are set
\* on the rows of the video_id, and the row is read back; a dictionary with
\* no allowed field is refused
repository_update(rows, id, updates) ==
    LET update_parts == allowed_fields \cap updates.keys
        Set(row) ==
            [row EXCEPT
               !.ai_summary = IF "ai_summary" \in update_parts THEN updates.ai_summary ELSE @,
               !.title = IF "title" \in update_parts THEN updates.title ELSE @,
               !.user_id = IF "user_id" \in update_parts THEN updates.user_id ELSE @]
        updated == {IF row.video_id = id THEN Set(row) ELSE row : row \in rows}
    IN IF update_parts = {}
       THEN [rows |-> rows,
             response |-> Response(FALSE, "", "No valid fields to update", "", NoRow)]
       ELSE [rows |-> updated,
             response |-> IF get_video_by_id(updated, id) # NoRow
                          THEN Response(TRUE, "", "", "", get_video_by_id(updated, id))
                          ELSE Response(FALSE, "", "Video not found", "", NoRow)]

\* VideoService.get_video: the row when it is there and belongs to the user,
\* None otherwise
get_video(rows, id, user) ==
    LET video == get_video_by_id(rows, id)
    IN IF video # NoRow /\ video.user_id = user THEN video ELSE NoRow

\* the owner is not compared
owner_check_absent(video, user) ==
    IF video = NoRow THEN "Video not found" ELSE ""

\* VideoService.delete_video and update_video, the checks before the write:
\* the error returned, "" when the write goes ahead
owner_check(video, user) ==
    IF video = NoRow THEN "Video not found"
    ELSE IF video.user_id # user THEN "Access denied"
    ELSE ""

\* a row of the users table; NoUser is None (no such row)
User(id, username) == [id |-> id, username |-> username]
NoUser == User(0, None)

\* DatabaseService.get_user_by_id
get_user_by_id(rows, id) ==
    IF \E row \in rows : row.id = id THEN CHOOSE row \in rows : row.id = id ELSE NoUser

\* DatabaseService.get_user_by_username
get_user_by_username(rows, username) ==
    IF \E row \in rows : row.username = username
    THEN CHOOSE row \in rows : row.username = username
    ELSE NoUser

\* the usernames people sign up with
Usernames == {"ann", "bob", "cy"}

\* create_access_token(data={"sub": ..., "user_id": ...}): the token of a
\* user, given by the data it is made of
TokenFor(user) == [sub |-> user.username, user_id |-> user.id]
NoToken == [sub |-> None, user_id |-> 0]

\* what signup returns
SignupOk(user) ==
    [success |-> TRUE, error |-> "", access_token |-> TokenFor(user),
     username |-> user.username]
SignupError(error) ==
    [success |-> FALSE, error |-> error, access_token |-> NoToken, username |-> None]

\* the username column is not UNIQUE
create_user_unchecked(rows, username) ==
    LET user == User(Cardinality(rows) + 1, username)
    IN [rows |-> rows \cup {user}, success |-> TRUE, error |-> "", data |-> user]

\* DatabaseService.create_user: the INSERT fails on the UNIQUE username
\* (IntegrityError); otherwise the row gets the next id and is read back
create_user(rows, username) ==
    IF \E row \in rows : row.username = username
    THEN [rows |-> rows, success |-> FALSE, error |-> "Username already exists",
          data |-> NoUser]
    ELSE LET user == User(Cardinality(rows) + 1, username)
         IN [rows |-> rows \cup {user}, success |-> TRUE, error |-> "", data |-> user]

\* a signup call: its position, argument, the calls it made to create_user
\* and what it returned
NoSignup ==
    [pc |-> "idle", username |-> None, create_calls |-> 0, response |-> SignupError("")]

\* an Authorization header: missing, the empty string, or a text, given by
\* the words that split() finds in it
Header(kind, words) == [kind |-> kind, words |-> words]
NoHeader == Header("missing", <<>>)

\* str.lower on the scheme words
Lower == [w \in {"Bearer", "bearer", "Basic"} |->
             IF w = "Basic" THEN "basic" ELSE "bearer"]

\* the payload of a token, None when there is none
Payload(user) == [username |-> IF user = 1 THEN "ann" ELSE "bob", user_id |-> user]
NoPayload == [username |-> None, user_id |-> 0]

\* auth_service.verify_token on the tokens of users 1 and 2 and on tokens
\* that are expired, not a token at all, or not decodable: the payload of a
\* valid token, None for an invalid or expired one; decoding may fail with an
\* exception
verify_token(token) ==
    IF token = "token1" THEN [raised |-> "", payload |-> Payload(1)]
    ELSE IF token = "token2" THEN [raised |-> "", payload |-> Payload(2)]
    ELSE IF token = "undecodable" THEN [raised |-> "JWTError", payload |-> NoPayload]
    ELSE [raised |-> "", payload |-> NoPayload]

\* what get_current_user gives: the payload, or the HTTPException it raises
Authenticated(payload) == [status |-> 200, detail |-> "", payload |-> payload]
Unauthorized(detail) == [status |-> 401, detail |-> detail, payload |-> NoPayload]

\* the headers requests come with
Headers ==
    {NoHeader, Header("empty", <<>>), Header("text", <<"Bearer">>),
     Header("text", <<"Basic", "token1">>), Header("text", <<"Bearer", "expired">>),
     Header("text", <<"Bearer", "garbage">>), Header("text", <<"Bearer", "undecodable">>),
     Header("text", <<"Bearer", "token1">>), Header("text", <<"bearer", "token2">>)}

\* the scheme is not compared
get_current_user_any_scheme(authorization) ==
    IF authorization.kind # "text" THEN Unauthorized("Not authenticated")
    ELSE IF Len(authorization.words) # 2 THEN Unauthorized("Invalid authorization header")
    ELSE LET token == authorization.words[2]
         IN IF verify_token(token).raised # ""
            THEN Unauthorized("Could not validate credentials")
            ELSE IF verify_token(token).payload = NoPayload
            THEN Unauthorized("Could not validate credentials")
            ELSE Authenticated(verify_token(token).payload)

\* get_current_user: a missing or empty header is refused; the header must
\* split into a scheme and a token (ValueError otherwise), the scheme be
\* bearer and the token verify; the HTTPExceptions raised inside the try are
\* not ValueErrors, so the last handler re-raises them as a 401 of its own
get_current_user(authorization) ==
    IF authorization.kind # "text" THEN Unauthorized("Not authenticated")
    ELSE IF Len(authorization.words) # 2 THEN Unauthorized("Invalid authorization header")
    ELSE LET scheme == authorization.words[1]
             token == authorization.words[2]
         IN IF Lower[scheme] # "bearer"
            THEN Unauthorized("Could not validate credentials")
            ELSE IF verify_token(token).raised # ""
            THEN Unauthorized("Could not validate credentials")
            ELSE IF verify_token(token).payload = NoPayload
            THEN Unauthorized("Could not validate credentials")
            ELSE Authenticated(verify_token(token).payload)

\* a call of the video service: the operation, its position, arguments and
\* locals, and the calls it made to the fetcher's get_transcript, the
\* summarizer and the repository save
NoRequest ==
    [op |-> "none", pc |-> "idle", url |-> <<>>, user_id |-> 0, video_id |-> NoneId,
     updates |-> NoUpdates, authorization |-> NoHeader, denied |-> 0, listed |-> {},
     store_calls |-> 0,
     transcript_result |-> NoResult, ai_summary |-> None, response |-> NoResponse,
     fetch_calls |-> 0, summarize_calls |-> 0, save_calls |-> 0]

EnvValues == {"unset", "empty", "set"}

\* YouTubeFetcher.__init__ under each environment; no call in progress
InitFetcher ==
    /\ SCRAPER_API_KEY \in EnvValues
    /\ use_scraper = (SCRAPER_API_KEY # "unset")
    /\ pc = "idle"
    /\ url = <<>>
    /\ video_id = NoneId
    /\ proxy_segments = NoProxy
    /\ direct_out = NoDirect
    /\ normalized = NoNorm
    /\ attempts = <<>>
    /\ proxy_fetches = 0
    /\ chosen = NoTrack
    /\ direct_calls = 0
    /\ result = NoResult
    /\ norm_in = OtherPayload(None, None)
    /\ norm_out = NoNorm
    /\ ext_in = NoUrlParts
    /\ ext_out = NoExtract
    /\ sel_in = <<>>
    /\ sel_out = NoTrack

\* the fetcher, and the video service built with a summarizer over an empty
\* store, no request in progress
Init ==
    /\ InitFetcher
    /\ videos = {}
    /\ summarizer = TRUE
    /\ req = [r \in Requests |-> NoRequest]
    /\ users = {}
    /\ auth = [r \in Requests |-> NoSignup]

\* the environment variable is changed between two calls
SetEnv(k) ==
    /\ pc = "idle"
    /\ k # SCRAPER_API_KEY
    /\ SCRAPER_API_KEY' = k
    /\ UNCHANGED <<use_scraper, pc, url, video_id, proxy_segments, direct_out,
                   normalized, attempts, proxy_fetches, chosen, direct_calls, result,
                   standalone, service>>

\* get_transcript(u), lines 254-261: extraction and the choice of the first adapter
Call(u) ==
    /\ pc = "idle"
    /\ url' = u
    /\ LET e == extract_video_id(u)
           end == OnException(e.raised, "Please use a standard YouTube URL", NoneId)
       IN IF e.raised # ""
          THEN /\ video_id' = NoneId
               /\ result' = end.result
               /\ pc' = end.pc
          ELSE /\ video_id' = e.id
               /\ result' = NoResult
               /\ pc' = FirstAdapter(use_scraper)
    /\ UNCHANGED <<SCRAPER_API_KEY, use_scraper, proxy_segments, direct_out, normalized,
                   attempts, proxy_fetches, chosen, direct_calls, standalone, service>>

\* lines 275 and 286-293 after the proxied adapter returned r and the
\* normalizer gave n (NoNorm when r is None); an exception that left the
\* adapter is handled at line 295 (proxy_segments then records the stage it
\* was raised at)
AfterProxy(r, n) ==
    /\ proxy_segments' = r
    /\ normalized' = n
    /\ IF r.isNone /\ Escapes(r.stage)
       THEN /\ pc' = OnException(StageException(r.stage), "", video_id).pc
            /\ result' = OnException(StageException(r.stage), "", video_id).result
       ELSE IF NeedsDirect(n)
       THEN /\ pc' = "direct"
            /\ UNCHANGED result
       ELSE /\ pc' = Finish(video_id, n).pc
            /\ result' = Finish(video_id, n).result

\* lines 261-265 and 64-125: the proxied adapter is entered and fetches the
\* video page, under each answer of the proxy
ProxyPage ==
    /\ pc = "proxy_page"
    /\ attempts' = Append(attempts, "proxy")
    /\ \E page \in PageResponses :
         LET stage == page_stage(use_scraper, SCRAPER_API_KEY, page)
         IN /\ proxy_fetches' = IF stage \in {"disabled", "no_key"} THEN 0 ELSE 1
            /\ IF stage = "fetch_caption"
               THEN /\ chosen' = page.tracks[ChosenIndex(page.tracks)]
                    /\ pc' = "proxy_caption"
                    /\ UNCHANGED <<proxy_segments, normalized, result>>
               ELSE /\ AfterProxy(ProxyNone(stage), NoNorm)
                    /\ UNCHANGED chosen
    /\ UNCHANGED <<SCRAPER_API_KEY, use_scraper, url, video_id, direct_out,
                   direct_calls, standalone, service>>

\* lines 126-153 and 266-274: the proxied adapter fetches the chosen track and
\* returns; its segments are normalized, None falls through to line 275
ProxyCaption ==
    /\ pc = "proxy_caption"
    /\ \E caption \in CaptionResponses :
         LET r == caption_result(SCRAPER_API_KEY, caption)
         IN /\ proxy_fetches' = IF r.stage = "no_key" THEN proxy_fetches
                                ELSE proxy_fetches + 1
            /\ chosen' = IF r.isNone THEN NoTrack ELSE chosen
            /\ AfterProxy(r, IF r.isNone THEN NoNorm
                             ELSE join_text_from_payload(ListPayload(r.segments)))
    /\ UNCHANGED <<SCRAPER_API_KEY, use_scraper, url, video_id, direct_out, attempts,
                   direct_calls, standalone, service>>

\* lines 275-302: the direct adapter, under each outcome of the library
TryDirect ==
    /\ pc = "direct"
    /\ \E fetchOut \in DirectOutcomes :
       \E legacyOut \in IF fetchOut.raised = "AttributeError" THEN DirectOutcomes
                        ELSE {fetchOut} :
         LET out == direct_fetch(fetchOut, legacyOut)
             n == join_text_from_payload(out.payload)
             end == IF out.raised # "" THEN OnException(out.raised, out.msg, video_id)
                    ELSE Finish(video_id, n)
         IN /\ direct_out' = out
            /\ direct_calls' = IF fetchOut.raised = "AttributeError" THEN 2 ELSE 1
            /\ attempts' = Append(attempts, "direct")
            /\ normalized' = IF out.raised # "" THEN normalized ELSE n
            /\ result' = end.result
            /\ pc' = end.pc
    /\ UNCHANGED <<SCRAPER_API_KEY, use_scraper, url, video_id, proxy_segments,
                   proxy_fetches, chosen, standalone, service>>

\* the call is over (it returned, or an exception left it); its locals are gone
Return ==
    /\ pc \in {"done", "raised"}
    /\ pc' = "idle"
    /\ url' = <<>>
    /\ video_id' = NoneId
    /\ proxy_segments' = NoProxy
    /\ direct_out' = NoDirect
    /\ normalized' = NoNorm
    /\ attempts' = <<>>
    /\ proxy_fetches' = 0
    /\ chosen' = NoTrack
    /\ direct_calls' = 0
    /\ result' = NoResult
    /\ UNCHANGED <<SCRAPER_API_KEY, use_scraper, standalone, service>>

Next ==
    \/ \E k \in EnvValues : SetEnv(k)
    \/ \E u \in Urls : Call(u)
    \/ ProxyPage
    \/ ProxyCaption
    \/ TryDirect
    \/ Return

Spec == Init /\ [][Next]_vars

\* a stand-alone call of the normalizer on a payload
Normalize(p) ==
    /\ norm_out = NoNorm
    /\ norm_in' = p
    /\ norm_out' = join_text_from_payload(p)
    /\ UNCHANGED <<SCRAPER_API_KEY, use_scraper, pc, url, video_id, proxy_segments,
                   direct_out, normalized, attempts, proxy_fetches, chosen, direct_calls,
                   result, ext_in, ext_out, sel_in, sel_out, service>>

\* the normalizer is applied to each payload: a list carries no attributes,
\* and a payload of another shape no items
NextNorm ==
    /\ norm_out = NoNorm
    /\ \E shape \in {"snippets", "list", "other"}, k \in 0..MaxSnippets :
          \E items \in [1..k -> Elements], meta \in MetaValues :
              /\ shape = "list" => meta = NoMeta
              /\ shape = "other" => k = 0
              /\ Normalize(MakePayload(shape, items, meta.language, meta.is_generated))

SpecNorm == Init /\ [][NextNorm]_vars

\* a stand-alone call of extract_video_id on the URL made of the parts
Extract(parts) ==
    /\ ext_in' = parts
    /\ ext_out' = extract_video_id(UrlOf(parts))
    /\ UNCHANGED <<SCRAPER_API_KEY, use_scraper, pc, url, video_id, proxy_segments,
                   direct_out, normalized, attempts, proxy_fetches, chosen, direct_calls,
                   result, norm_in, norm_out, sel_in, sel_out, service>>

\* the extractor is applied to each URL
NextExtract ==
    /\ ext_out = NoExtract
    /\ \E lead \in UrlPads, scheme \in UrlSchemes, host \in UrlHosts, path \in UrlPaths,
          trail \in UrlPads, k \in 0..MaxParams :
          \E params \in [1..k -> QueryParams] :
              Extract([lead |-> lead, scheme |-> scheme, host |-> host, path |-> path,
                       params |-> params, trail |-> trail])

SpecExtract == Init /\ [][NextExtract]_vars

\* track lists handed to the selection alone: every entry has a baseUrl
SelTracks == {t \in Tracks : t.baseUrl}

\* line 117 alone: chosen = sorted(tracks, key=priority)[0] of a non-empty list
Select(ts) ==
    /\ sel_in' = ts
    /\ sel_out' = ts[ChosenIndex(ts)]
    /\ UNCHANGED <<SCRAPER_API_KEY, use_scraper, pc, url, video_id, proxy_segments,
                   direct_out, normalized, attempts, proxy_fetches, chosen, direct_calls,
                   result, norm_in, norm_out, ext_in, ext_out, service>>

\* the selection is applied to each non-empty track list
NextSelect ==
    /\ sel_in = <<>>
    /\ \E k \in 1..MaxSelTracks : \E ts \in [1..k -> SelTracks] : Select(ts)

SpecSelect == Init /\ [][NextSelect]_vars

\* the frame of the video service's actions
fetcherVars ==
    <<SCRAPER_API_KEY, use_scraper, pc, url, video_id, proxy_segments, direct_out,
      normalized, attempts, proxy_fetches, chosen, direct_calls, result>>

\* DependencyContainer.__init__: the service is built with or without the
\* summarizer (GroqSummarizer() may fail), before any request
Construct(b) ==
    /\ videos = {}
    /\ \A r \in Requests : req[r].pc = "idle"
    /\ b # summarizer
    /\ summarizer' = b
    /\ UNCHANGED <<videos, req, accounts, fetcherVars, standalone>>

\* save_video(u, user), lines 42-46: extraction, lookup, and the early return
\* when the video exists; a ValueError of the extractor leaves save_video
save_video(rows, u, user) ==
    LET e == ExtractedIds[u]
        existing == get_video_by_id(rows, e.id)
        call == [NoRequest EXCEPT !.op = "save", !.url = u, !.user_id = user]
    IN IF e.raised # ""
       THEN [call EXCEPT !.pc = "raised", !.response = ResponseRaise(e.raised)]
       ELSE IF existing # NoRow
       THEN [call EXCEPT !.pc = "done", !.video_id = e.id, !.store_calls = 1,
                         !.response = Response(TRUE, "Video already exists", "", "",
                                               existing)]
       ELSE [call EXCEPT !.pc = "fetch", !.video_id = e.id, !.store_calls = 1]

\* a save_video call begins
SaveVideo(r, u, user) ==
    /\ req[r].pc = "idle"
    /\ req' = [req EXCEPT ![r] = save_video(videos, u, user)]
    /\ UNCHANGED <<videos, summarizer, accounts, fetcherVars, standalone>>

\* the success flag of the transcript result is not looked at
after_fetch_unchecked(call, tr, has_summarizer) ==
    [call EXCEPT !.pc = IF has_summarizer THEN "summarize" ELSE "store",
                 !.transcript_result = tr, !.fetch_calls = @ + 1]

\* lines 49-60: a failed transcript result is returned with the fetcher's
\* error and error type; otherwise the call goes on to the summarizer, when
\* there is one, or to the save
after_fetch(call, tr, has_summarizer) ==
    IF ~tr.success
    THEN [call EXCEPT !.pc = "done", !.transcript_result = tr, !.fetch_calls = @ + 1,
                      !.response = Response(FALSE, "", tr.error, tr.error_type, NoRow)]
    ELSE [call EXCEPT !.pc = IF has_summarizer THEN "summarize" ELSE "store",
                      !.transcript_result = tr, !.fetch_calls = @ + 1]

\* lines 49-60: the transcript is fetched
SaveFetch(r) ==
    /\ req[r].pc = "fetch"
    /\ \E tr \in FetchResults(req[r].video_id) :
         req' = [req EXCEPT ![r] = after_fetch(@, tr, summarizer)]
    /\ UNCHANGED <<videos, summarizer, accounts, fetcherVars, standalone>>

\* a summarizer failure ends the call with a failure
after_summary_failing(call, sr) ==
    IF sr.success
    THEN [call EXCEPT !.pc = "store", !.summarize_calls = @ + 1, !.ai_summary = sr.summary]
    ELSE [call EXCEPT !.pc = "done", !.summarize_calls = @ + 1,
                      !.response = Response(FALSE, "", "summary failed", "", NoRow)]

\* lines 62-66: the summary result is taken on success; a failure is only
\* printed, ai_summary stays None and the call goes on to the save
after_summary(call, sr) ==
    [call EXCEPT !.pc = "store", !.summarize_calls = @ + 1,
                 !.ai_summary = IF sr.success THEN sr.summary ELSE None]

\* lines 60-66: the summary is asked for
SaveSummarize(r) ==
    /\ req[r].pc = "summarize"
    /\ \E sr \in SummaryResults :
         req' = [req EXCEPT ![r] = after_summary(@, sr)]
    /\ UNCHANGED <<videos, summarizer, accounts, fetcherVars, standalone>>

\* lines 69-81: the row is handed to the repository, whose result is returned
SaveStore(r) ==
    /\ req[r].pc = "store"
    /\ LET row == Row(req[r].url, req[r].transcript_result.video_id, req[r].user_id,
                      req[r].transcript_result, req[r].ai_summary)
           saved == repository_save(videos, row)
       IN /\ videos' = saved.rows
          /\ req' = [req EXCEPT ![r] =
                       [@ EXCEPT !.pc = "done", !.save_calls = @ + 1,
                                 !.store_calls = @ + 1, !.response = saved.response]]
    /\ UNCHANGED <<summarizer, accounts, fetcherVars, standalone>>

\* save_video_transcript, the endpoint of main.py that runs the same workflow:
\* the status of its answer to a finished call. An exception that is not an
\* HTTPException, the extractor's ValueError included, gives 500 (lines
\* 239-241); a failed transcript result gives 400 (line 206); a failed save
\* gives 500 (line 235); the stored or the existing row is answered with 200
http_status(call) ==
    IF call.response.raised # "" THEN 500
    ELSE IF call.fetch_calls = 1 /\ ~call.transcript_result.success THEN 400
    ELSE IF call.save_calls = 1 /\ ~call.response.success THEN 500
    ELSE 200

\* the call is over: the request is answered
SaveReturn(r) ==
    /\ req[r].pc \in {"done", "raised"}
    /\ req' = [req EXCEPT ![r] = NoRequest]
    /\ UNCHANGED <<videos, summarizer, accounts, fetcherVars, standalone>>

NextService ==
    \/ \E b \in BOOLEAN : Construct(b)
    \/ \E r \in Requests, u \in ServiceUrls, user \in UserIds : SaveVideo(r, u, user)
    \/ \E r \in Requests : SaveFetch(r)
    \/ \E r \in Requests : SaveSummarize(r)
    \/ \E r \in Requests : SaveStore(r)
    \/ \E r \in Requests : SaveReturn(r)

\* the identifier single-video requests name
VideoIds == {S_id}

\* the URLs saved while videos are read, deleted and updated, and the update
\* dictionaries sent
StoreUrls == {S_https \o S_youtu_be \o S_id, S_https \o S_youtu_be \o S_id2}
StoreUpdates ==
    {UpdateDict({"user_id"}), UpdateDict({"ai_summary", "user_id"}), UpdateDict({"title"})}

\* the URLs sent with a header: user 1 saves the first video only
SavedWith(authorization) ==
    IF get_current_user(authorization).payload.user_id = 1
    THEN {S_https \o S_youtu_be \o S_id}
    ELSE StoreUrls

\* Depends(get_current_user) raised: the endpoint's body is not run and the
\* request is answered with the HTTPException
denied_call(op, authorization) ==
    [NoRequest EXCEPT !.op = op, !.pc = "done", !.authorization = authorization,
                      !.denied = get_current_user(authorization).status,
                      !.response = Response(FALSE, "", get_current_user(authorization).detail,
                                            "", NoRow)]

\* the call an endpoint makes for the user of the token. The bodies of the
\* endpoints run the lookups, checks and writes of the VideoService methods of
\* the same names (answering 404 and 403 where the service returns 'Video not
\* found', None or 'Access denied'); the calls are modelled by those methods
as_user(authorization, call) ==
    IF get_current_user(authorization).status # 200
    THEN denied_call(call.op, authorization)
    ELSE [call EXCEPT !.authorization = authorization]

CurrentUser(authorization) == get_current_user(authorization).payload.user_id

\* get_video(id, user): the lookup and the answer, the row or None
get_video_call(rows, id, user) ==
    [NoRequest EXCEPT !.op = "get", !.pc = "done", !.video_id = id, !.user_id = user,
                      !.store_calls = 1,
                      !.response = Response(get_video(rows, id, user) # NoRow, "", "", "",
                                            get_video(rows, id, user))]

\* delete_video(id, user) and update_video(id, user, updates) up to the write:
\* the lookup and the two checks
write_call(op, rows, id, user, updates) ==
    LET error == owner_check(get_video_by_id(rows, id), user)
        call == [NoRequest EXCEPT !.op = op, !.video_id = id, !.user_id = user,
                                  !.updates = updates, !.store_calls = 1]
    IN IF error # ""
       THEN [call EXCEPT !.pc = "done", !.response = Response(FALSE, "", error, "", NoRow)]
       ELSE [call EXCEPT !.pc = op]

\* DatabaseService.get_user_videos: the rows of the user
get_user_videos(rows, user) == {row \in rows : row.user_id = user}

\* POST /api/videos: the user is taken from the token, and the video saved
api_save_video(r, authorization, u) ==
    /\ req[r].pc = "idle"
    /\ req' = [req EXCEPT ![r] =
                 as_user(authorization, save_video(videos, u, CurrentUser(authorization)))]
    /\ UNCHANGED <<videos, summarizer, accounts, fetcherVars, standalone>>

\* GET /api/videos: the videos of the user
api_get_all_videos(r, authorization) ==
    /\ req[r].pc = "idle"
    /\ req' = [req EXCEPT ![r] =
                 as_user(authorization,
                         [NoRequest EXCEPT !.op = "list", !.pc = "done",
                              !.user_id = CurrentUser(authorization), !.store_calls = 1,
                              !.response = Response(TRUE, "", "", "", NoRow),
                              !.listed = get_user_videos(videos, CurrentUser(authorization))])]
    /\ UNCHANGED <<videos, summarizer, accounts, fetcherVars, standalone>>

\* GET /api/videos/{video_id}
api_get_video(r, authorization, id) ==
    /\ req[r].pc = "idle"
    /\ req' = [req EXCEPT ![r] =
                 as_user(authorization,
                         get_video_call(videos, id, CurrentUser(authorization)))]
    /\ UNCHANGED <<videos, summarizer, accounts, fetcherVars, standalone>>

\* DELETE /api/videos/{video_id}, up to the write
api_delete_video(r, authorization, id) ==
    /\ req[r].pc = "idle"
    /\ req' = [req EXCEPT ![r] =
                 as_user(authorization,
                         write_call("delete", videos, id, CurrentUser(authorization),
                                    NoUpdates))]
    /\ UNCHANGED <<videos, summarizer, accounts, fetcherVars, standalone>>

\* delete_video, line 121: the repository deletes by video_id, and its result
\* is returned
DeleteWrite(r) ==
    /\ req[r].pc = "delete"
    /\ LET deleted == repository_delete(videos, req[r].video_id)
       IN /\ videos' = deleted.rows
          /\ req' = [req EXCEPT ![r] = [@ EXCEPT !.pc = "done", !.store_calls = @ + 1,
                                                 !.response = deleted.response]]
    /\ UNCHANGED <<summarizer, accounts, fetcherVars, standalone>>

\* PUT /api/videos/{video_id}, up to the write
api_update_video(r, authorization, id, updates) ==
    /\ req[r].pc = "idle"
    /\ req' = [req EXCEPT ![r] =
                 as_user(authorization,
                         write_call("update", videos, id, CurrentUser(authorization),
                                    updates))]
    /\ UNCHANGED <<videos, summarizer, accounts, fetcherVars, standalone>>

\* update_video, line 142: the repository updates by video_id, and its result
\* is returned
UpdateWrite(r) ==
    /\ req[r].pc = "update"
    /\ LET updated == repository_update(videos, req[r].video_id, req[r].updates)
       IN /\ videos' = updated.rows
          /\ req' = [req EXCEPT ![r] = [@ EXCEPT !.pc = "done", !.store_calls = @ + 1,
                                                 !.response = updated.response]]
    /\ UNCHANGED <<summarizer, accounts, fetcherVars, standalone>>

\* GET /api/auth/me: the row of the token's user in the users table
api_get_current_user_info(r, authorization) ==
    /\ req[r].pc = "idle"
    /\ req' = [req EXCEPT ![r] =
                 as_user(authorization,
                         [NoRequest EXCEPT !.op = "me", !.pc = "done",
                              !.user_id = CurrentUser(authorization),
                              !.response =
                                  IF get_user_by_id(users, CurrentUser(authorization)) = NoUser
                                  THEN Response(FALSE, "", "User not found", "", NoRow)
                                  ELSE Response(TRUE, "", "", "", NoRow)])]
    /\ UNCHANGED <<videos, summarizer, accounts, fetcherVars, standalone>>

\* requests come with any header; the second video is saved by user 2 only
NextStore ==
    \/ \E r \in Requests, h \in Headers : \E u \in SavedWith(h) : api_save_video(r, h, u)
    \/ \E r \in Requests : SaveFetch(r)
    \/ \E r \in Requests : SaveStore(r)
    \/ \E r \in Requests : SaveReturn(r)
    \/ \E r \in Requests, h \in Headers : api_get_all_videos(r, h)
    \/ \E r \in Requests, h \in Headers, id \in VideoIds : api_get_video(r, h, id)
    \/ \E r \in Requests, h \in Headers, id \in VideoIds : api_delete_video(r, h, id)
    \/ \E r \in Requests : DeleteWrite(r)
    \/ \E r \in Requests, h \in Headers, id \in VideoIds, updates \in StoreUpdates :
          api_update_video(r, h, id, updates)
    \/ \E r \in Requests : UpdateWrite(r)
    \/ \E r \in Requests, h \in Headers : api_get_current_user_info(r, h)

\* the service and its store after construction; the fetcher's environment
\* plays no part in save_video
InitService == Init /\ SCRAPER_API_KEY = "unset"

SpecService == InitService /\ [][NextService]_vars

\* the service built without a summarizer (no GROQ key) over an empty store,
\* after users 1 and 2 have signed up
InitStore ==
    /\ InitFetcher
    /\ SCRAPER_API_KEY = "unset"
    /\ videos = {}
    /\ summarizer = FALSE
    /\ req = [r \in Requests |-> NoRequest]
    /\ users = {User(1, "ann"), User(2, "bob")}
    /\ auth = [r \in Requests |-> NoSignup]

SpecStore == InitStore /\ [][NextStore]_vars

\* AuthService.signup(username, password), lines 42-44: the lookup, and the
\* refusal of a username that is taken
Signup(r, username) ==
    /\ auth[r].pc = "idle"
    /\ auth' = [auth EXCEPT ![r] =
                  IF get_user_by_username(users, username) # NoUser
                  THEN [NoSignup EXCEPT !.pc = "done", !.username = username,
                                        !.response = SignupError("Username already exists")]
                  ELSE [NoSignup EXCEPT !.pc = "create", !.username = username]]
    /\ UNCHANGED <<users, videos, summarizer, req, fetcherVars, standalone>>

\* lines 47-68: the user is created; a failure of create_user is returned as
\* it is, otherwise the token is made for the new row
SignupCreate(r) ==
    /\ auth[r].pc = "create"
    /\ LET created == create_user(users, auth[r].username)
       IN /\ users' = created.rows
          /\ auth' = [auth EXCEPT ![r] =
                        [@ EXCEPT !.pc = "done", !.create_calls = @ + 1,
                                  !.response = IF created.success
                                               THEN SignupOk(created.data)
                                               ELSE SignupError(created.error)]]
    /\ UNCHANGED <<videos, summarizer, req, fetcherVars, standalone>>

\* the call is over: the request is answered
SignupReturn(r) ==
    /\ auth[r].pc = "done"
    /\ auth' = [auth EXCEPT ![r] = NoSignup]
    /\ UNCHANGED <<users, videos, summarizer, req, fetcherVars, standalone>>

\* people sign up concurrently
NextAuth ==
    \/ \E r \in Requests, username \in Usernames : Signup(r, username)
    \/ \E r \in Requests : SignupCreate(r)
    \/ \E r \in Requests : SignupReturn(r)

SpecAuth == InitService /\ [][NextAuth]_vars

\* ---------------------------------------------------------------- claims
\* adapter a was attempted by the call in progress
Attempted(a) == \E i \in 1..Len(attempts) : attempts[i] = a

\* the call got past extraction
Extracted == video_id # NoneId

\* what lines 275-302 alone make of the direct adapter's outcome
DirectAlone ==
    IF direct_out.raised # "" THEN OnException(direct_out.raised, direct_out.msg, video_id)
    ELSE Finish(video_id, join_text_from_payload(direct_out.payload))

\* C1: get_transcript never raises: whatever the extractor, the adapters and
\* the normalizer do (return, return nothing, raise), no exception leaves the
\* call, a call in progress can always take its next step, and a finished
\* call has returned a success record or a failure record.
C1_NeverRaises ==
    /\ pc # "raised"
    /\ pc \in {"proxy_page", "proxy_caption", "direct"}
          => ENABLED (ProxyPage \/ ProxyCaption \/ TryDirect)
    /\ pc = "done" =>
          \/ result.success /\ result.error_type = "" /\ normalized.raised = ""
          \/ ~result.success /\ result.error_type # "" /\ result.error # ""

\* C1 witness: the normalizer raised on the direct adapter's payload and the
\* call still returned a failure record
C1_Witness ==
    /\ pc = "done"
    /\ Attempted("direct")
    /\ direct_out.raised = ""
    /\ join_text_from_payload(direct_out.payload).raised # ""
    /\ ~result.success

\* the error kinds of the caller-facing taxonomy
ErrorTaxonomy ==
    {"InvalidUrl", "TranscriptsDisabled", "NoTranscriptFound", "UpstreamParseError",
     "TransportError", "Unknown"}

\* C2: when every configured adapter has failed, the failure record's error
\* kind is one of the taxonomy, never a raw exception name.
C2_ErrorKindInTaxonomy ==
    (pc = "done" /\ proxy_segments.isNone /\ Attempted("direct") /\ direct_out.raised # "")
        => ~result.success /\ result.error_type \in ErrorTaxonomy

C5_NoCredentialNoProxy ==
    (pc # "idle" /\ (~use_scraper \/ SCRAPER_API_KEY # "set"))
        => /\ proxy_fetches = 0
           /\ proxy_segments.isNone
           /\ (pc = "done" /\ Extracted) =>
                 /\ Attempted("direct")
                 /\ result = DirectAlone.result

\* C5 witness: a call of a fetcher built without the key succeeded through
\* the direct adapter only
C5_Witness ==
    /\ pc = "done"
    /\ ~use_scraper
    /\ attempts = <<"direct">>
    /\ result.success
    /\ result.segments_count > 0

\* the payload the record was built from
SourceItems ==
    IF Attempted("direct") THEN direct_out.payload.items ELSE proxy_segments.segments

\* C6: a success record is only built from a non-empty adapter payload.
C6_SuccessOnlyNonEmpty ==
    (pc = "done" /\ result.success) => SourceItems # <<>>

\* C7: the returned record carries the content identifier whenever extraction
\* succeeded, on success and on failure, and None only when extraction failed.
C7_IdentifierCarried ==
    pc = "done" =>
        LET e == extract_video_id(url)
        IN result.video_id = IF e.raised = "" THEN e.id ELSE NoneId

\* C7 witness: a failure after a successful extraction carries the identifier
C7_Witness ==
    /\ pc = "done"
    /\ ~result.success
    /\ attempts # <<>>
    /\ result.video_id = <<"a", "b", "c">>

\* a stand-alone normalizer call has been made
Normalized == norm_out # NoNorm

\* shapes none of the three branches recognizes
Unrecognized(p) ==
    \/ p.shape = "other"
    \/ p.shape = "list" /\ (p.items = <<>> \/ p.items[1].kind \notin {"dict", "str"})

\* C8: the normalizer never fails, and an empty or unrecognized payload
\* normalizes to text "" and segment count 0.
C8_NormalizerTotal ==
    Normalized =>
        /\ norm_out.raised = ""
        /\ (Unrecognized(norm_in) \/ norm_in.items = <<>>)
              => norm_out.transcript = <<>> /\ norm_out.segments_count = 0

\* the three encodings of a sequence of caption texts
AsSnippets(ts) == SnippetsPayload(Map(LAMBDA t : ObjElem(PyStr(t)), ts), None, None)
AsRecords(ts) == ListPayload(Map(LAMBDA t : DictElem(PyStr(t)), ts))
AsStrings(ts) == ListPayload(Map(StrElem, ts))

\* the caption texts of a payload
TextsOf(p) == Map(LAMBDA e : e.val.s, p.items)

\* p is one of the three encodings of its caption texts
IsEncoding(p) == p \in {AsSnippets(TextsOf(p)), AsRecords(TextsOf(p)), AsStrings(TextsOf(p))}

\* text and segment count of a normalizer result
TextAndCount(n) == <<n.raised, n.transcript, n.segments_count>>

\* C9: the three encodings of the same caption texts normalize to the same
\* text and the same segment count.
C9_ShapeInvariance ==
    (Normalized /\ IsEncoding(norm_in)) =>
        LET ts == TextsOf(norm_in)
        IN /\ TextAndCount(join_text_from_payload(AsSnippets(ts))) = TextAndCount(norm_out)
           /\ TextAndCount(join_text_from_payload(AsRecords(ts))) = TextAndCount(norm_out)
           /\ TextAndCount(join_text_from_payload(AsStrings(ts))) = TextAndCount(norm_out)

\* C10: the normalized text is the trimmed snippet texts, those empty after
\* trimming skipped, joined in order by one space.
C10_TrimmedJoin ==
    (Normalized /\ IsEncoding(norm_in)) =>
        norm_out.transcript =
            Join(<<" ">>, SelectSeq(Map(Strip, TextsOf(norm_in)), LAMBDA t : t # <<>>))

\* C11: for every recognized payload shape the normalized segment count is
\* the number of snippets of the payload, those with an empty text, which the
\* joined text leaves out, included.
C11_CountsConsumed ==
    (Normalized /\ ~Unrecognized(norm_in) /\ norm_out.raised = "")
        => norm_out.segments_count = Len(norm_in.items)

\* C11 witness: a list of two records, the second with an empty text: one
\* text is joined, two segments are counted
C11_Witness ==
    /\ Normalized
    /\ norm_in = ListPayload(<<DictElem(PyStr(<<"a">>)), DictElem(PyStr(<<>>))>>)
    /\ norm_out.transcript = <<"a">>
    /\ norm_out.segments_count = 2

\* the call in progress got its transcript from the proxied adapter
ViaProxy == ~proxy_segments.isNone

\* C12: a success record carries the language and the auto-generated flag
\* whenever they are known, at the payload (the direct adapter's object) or at
\* the caption track the proxied adapter chose, and carries None only when
\* they are unknown.
C12_MetadataCarried ==
    (pc = "done" /\ result.success) =>
        IF ViaProxy
        THEN /\ chosen.languageCode # <<>> => result.language # None
             /\ chosen.kind = "asr" => result.is_generated = "True"
        ELSE /\ result.language = direct_out.payload.language
             /\ result.is_generated = direct_out.payload.is_generated

\* a stand-alone extractor call has been made
ExtractCalled == ext_out # NoExtract

\* the parameters named v of a URL
VParams(parts) == SelectSeq(parts.params, LAMBDA q : q.name = <<"v">>)

\* a canonical watch URL whose v parameter is S_id
IsWatchUrl(parts) ==
    /\ parts.scheme = S_https
    /\ parts.host = S_youtube
    /\ parts.path = S_watch
    /\ VParams(parts) = <<[name |-> <<"v">>, value |-> S_id]>>

\* C13: for a canonical watch URL carrying v=ID the extractor returns ID,
\* whatever other query parameters there are, in whatever order, and whatever
\* blanks surround the URL.
C13_WatchUrlGivesId ==
    (ExtractCalled /\ IsWatchUrl(ext_in)) => ext_out = ExtractOk(S_id)

\* a short link https://youtu.be/ID, alone or followed by /rest
IsShortLink(parts) ==
    /\ parts.scheme = S_https
    /\ parts.host = S_short
    /\ parts.path \in {<<"/">> \o S_id, <<"/">> \o S_id \o S_rest}

\* C14: for a short link https://<short-host>/ID followed by an optional
\* ?query or /rest the extractor returns ID, the path segment right after the
\* host, cut at the first '?' or '/'.
C14_ShortLinkGivesId ==
    (ExtractCalled /\ IsShortLink(ext_in)) => ext_out = ExtractOk(S_id)

\* C14 witness: a short link followed by /rest and by a query gave ID
C14_Witness ==
    /\ ExtractCalled
    /\ IsShortLink(ext_in)
    /\ ext_in.path = <<"/">> \o S_id \o S_rest
    /\ ext_in.params # <<>>
    /\ ext_out = ExtractOk(S_id)

\* neither a short link nor a URL with a v parameter
IsOtherUrl(parts) ==
    /\ parts.host # S_short
    /\ VParams(parts) = <<>>

\* C15: for a URL that is neither a short link nor a watch-style URL with a
\* v parameter the extractor fails with the invalid-URL error and returns no
\* identifier.
C15_OtherUrlRejected ==
    (ExtractCalled /\ IsOtherUrl(ext_in)) => ext_out = ExtractRaise("ValueError")

\* C16: the extractor never returns the empty string: when the identifier
\* part of a recognized form is missing, extraction fails.
C16_NeverEmptyId ==
    ExtractCalled => ~(ext_out.raised = "" /\ ext_out.id = <<>>)

\* a stand-alone track selection has been made
Selected == sel_in # <<>>

\* the preferred-language list (the one the direct adapter is called with)
L_en_GB == <<"e", "n", "-", "G", "B">>
PreferredLanguages == {L_en, L_en_US, L_en_GB}

\* the rank of the claim's sort key, given whether the track's language is
\* a preferred one
RankUnder(preferred, t) ==
    IF preferred /\ t.kind # "asr" THEN 0
    ELSE IF preferred THEN 1
    ELSE IF t.kind # "asr" THEN 2
    ELSE 3

\* a comes strictly before b under ranks ra, rb, ties by language code
Before(ra, a, rb, b) ==
    \/ ra < rb
    \/ ra = rb /\ StrLess(a.languageCode, b.languageCode)

\* C17 as stated: the chosen track is a minimum of the tracks under the key
\* that ranks by membership of the language in the preferred-language list.
C17_MinUnderPreferredList ==
    Selected =>
        \A i \in 1..Len(sel_in) :
            ~Before(RankUnder(sel_in[i].languageCode \in PreferredLanguages, sel_in[i]),
                    sel_in[i],
                    RankUnder(sel_out.languageCode \in PreferredLanguages, sel_out),
                    sel_out)

\* C17 amended: the chosen track is one of the tracks and a minimum under the
\* key that ranks by the language code starting with "en" (0 authored, 1
\* auto-generated; other languages 2 authored, 3 auto-generated), ties by
\* ascending language code; [fr authored, en asr, en authored] selects en
\* authored.
C17_MinUnderEnglishPrefix ==
    Selected =>
        /\ \E i \in 1..Len(sel_in) : sel_in[i] = sel_out
        /\ \A i \in 1..Len(sel_in) :
              ~Before(RankUnder(StartsWith(sel_in[i].languageCode, L_en), sel_in[i]),
                      sel_in[i],
                      RankUnder(StartsWith(sel_out.languageCode, L_en), sel_out),
                      sel_out)

\* C17 witness: the example, [fr authored, en asr, en authored] selects en
\* authored
C17_Witness ==
    /\ sel_in = <<[languageCode |-> L_fr, kind |-> "", baseUrl |-> TRUE],
                  [languageCode |-> L_en, kind |-> "asr", baseUrl |-> TRUE],
                  [languageCode |-> L_en, kind |-> "", baseUrl |-> TRUE]>>
    /\ sel_out = [languageCode |-> L_en, kind |-> "", baseUrl |-> TRUE]

\* the failures of the proxied adapter: no usable key, transport error,
\* empty page, no JSON blob, unparsable JSON or JSON of another shape, no
\* track, track without URL, empty or unparsable caption document, no
\* non-empty text node
SoftFailures ==
    {"no_key", "raise", "empty", "no_match", "bad_json", "bad_shape", "no_tracks",
     "no_base_url", "bad_xml", "no_segments"}

\* C18: no exception leaves the proxied adapter: each of its failures makes
\* it return None, after which the orchestrator falls back to the direct
\* adapter, whose outcome alone decides the result.
C18_AdapterNeverRaises ==
    (Attempted("proxy") /\ pc # "proxy_caption" /\ proxy_segments.isNone) =>
        /\ proxy_segments.stage \in SoftFailures
        /\ pc = "direct" \/ attempts = <<"proxy", "direct">>
        /\ pc = "done" => result = DirectAlone.result

\* C18 witness: the caption document was not XML, the adapter returned None
\* and the direct adapter gave the transcript
C18_Witness ==
    /\ pc = "done"
    /\ attempts = <<"proxy", "direct">>
    /\ proxy_segments.stage = "bad_xml"
    /\ result.success
    /\ result.transcript # <<>>

\* the kind the classification by message gives: captions turned off,
\* "not found", XML/parse failure, anything else
KindOfMessage(msg) ==
    CASE msg = "Subtitles are disabled for this video" -> "TranscriptsDisabled"
      [] msg = "Transcript not found" -> "NoTranscriptFound"
      [] OTHER -> "Unknown"

\* C19: on terminal failure the error kind is derived from the adapter's raw
\* message (turned off, not found, parse failure, else Unknown with the message
\* preserved) and does not depend on the class of the upstream exception.
C19_KindFromMessage ==
    (pc = "done" /\ Attempted("direct") /\ direct_out.raised # "" /\ direct_out.msg # "")
        => /\ ~result.success
           /\ result.error_type = KindOfMessage(direct_out.msg)
           /\ result.error = direct_out.msg

\* the identifiers stored
StoredIds == {row.video_id : row \in videos}

\* the calls request r made to the transcript fetch, the summarizer and the
\* repository save
CallsMade(r) == <<req[r].fetch_calls, req[r].summarize_calls, req[r].save_calls>>

SummaryFailed(r) == req[r].summarize_calls = 1 /\ req[r].ai_summary = None

AlreadyExistsError == "Video already exists: UNIQUE constraint failed"

\* the store holds at most one record per content identifier
OnePerId(rows) == \A a, b \in rows : a.video_id = b.video_id => a = b

C27_FetchFailureStops ==
    [][\A r \in Requests :
          (req[r].pc = "fetch" /\ req'[r] # req[r] /\ ~req'[r].transcript_result.success)
             => /\ req'[r].pc = "done"
                /\ ~req'[r].response.success
                /\ req'[r].response.error = req'[r].transcript_result.error
                /\ req'[r].response.error_type = req'[r].transcript_result.error_type
                /\ CallsMade(r)' = <<1, 0, 0>>
                /\ videos' = videos]_vars

\* C27 witness: a call ended on a failed fetch with the fetcher's error, while
\* the service has a summarizer
C27_Witness ==
    \E r \in Requests :
        /\ summarizer
        /\ req[r].pc = "done"
        /\ ~req[r].transcript_result.success
        /\ req[r].response.error = "Connection timed out"
        /\ req[r].response.error_type = "ConnectionError"
        /\ CallsMade(r) = <<1, 0, 0>>

\* the failure kinds the HTTP layer is to answer with a 400
ClientErrorKinds == {"TranscriptsDisabled", "NoTranscriptFound"}

\* C26: the HTTP layer maps failure kinds to status classes: an invalid URL
\* gives 400, transcripts disabled or no transcript found give 400, and every
\* other failure (transport, upstream parse, unknown) gives a 500-class status.
C26_StatusByKind ==
    \A r \in Requests :
        /\ req[r].pc = "raised" => http_status(req[r]) = 400
        /\ (req[r].pc = "done" /\ req[r].fetch_calls = 1 /\ ~req[r].transcript_result.success)
             => IF req[r].transcript_result.error_type \in ClientErrorKinds
                THEN http_status(req[r]) = 400
                ELSE http_status(req[r]) \in 500..599

\* the header has the form 'Bearer <token>' and its token is a valid one
GoodHeader(h) ==
    /\ h.kind = "text"
    /\ Len(h.words) = 2
    /\ h.words[1] \in {"Bearer", "bearer"}
    /\ h.words[2] \in {"token1", "token2"}

\* C23: every video endpoint (list, get, save, delete, update) and the
\* current-user endpoint answers 401 when the Authorization header is
\* missing, empty, not of the form 'Bearer <token>', or carries an invalid or
\* expired token, and then makes no call to the video store, hands out no
\* row and leaves the store as it was.
C23_Unauthenticated401 ==
    [][\A r \in Requests :
          (req[r].pc = "idle" /\ req'[r].pc # "idle" /\ ~GoodHeader(req'[r].authorization))
             => /\ req'[r].op \in {"list", "get", "save", "delete", "update", "me"}
                /\ req'[r].pc = "done"
                /\ req'[r].denied = 401
                /\ req'[r].store_calls = 0
                /\ req'[r].response.data = NoRow
                /\ req'[r].listed = {}
                /\ videos' = videos]_vars

\* C23 witness: while a video is stored, an update request with an expired
\* token and a delete request with another scheme were both answered 401
C23_Witness ==
    /\ videos # {}
    /\ \E r \in Requests :
          /\ req[r].op = "update"
          /\ req[r].authorization = Header("text", <<"Bearer", "expired">>)
          /\ req[r].denied = 401
    /\ \E r \in Requests :
          /\ req[r].op = "delete"
          /\ req[r].authorization = Header("text", <<"Basic", "token1">>)
          /\ req[r].denied = 401

\* the stored rows of an identifier
StoredAs(id) == {row \in videos : row.video_id = id}

\* request r begins, authenticated, with operation op
Begins(r, op) ==
    req[r].pc = "idle" /\ req'[r].pc # "idle" /\ req'[r].op = op /\ req'[r].denied = 0

Others(rows, id) == {row \in rows : row.video_id # id}

\* row new is row old but for its ai_summary and title
SameButSummaryAndTitle(new, old) ==
    [new EXCEPT !.ai_summary = old.ai_summary, !.title = old.title] = old

C29_WriteOnOwnedRecord ==
    [][\A r \in Requests :
          (req[r].pc \in {"delete", "update"} /\ req'[r] # req[r])
             => \A row \in videos \ videos' : row.user_id = req[r].user_id]_vars

\* C30: no operation hands a user the stored record of a video owned by a
\* different user: whatever row or rows a finished request answers with,
\* save_video's answer for an identifier that is already stored included,
\* belong to the caller.
C30_OnlyOwnRecords ==
    \A r \in Requests :
        req[r].pc = "done"
           => /\ req[r].response.data # NoRow => req[r].response.data.user_id = req[r].user_id
              /\ \A row \in req[r].listed : row.user_id = req[r].user_id

\* the usernames taken
TakenNames == {row.username : row \in users}

\* a signup refused: nothing was created and no token issued
Refused(call) ==
    /\ call.pc = "done"
    /\ ~call.response.success
    /\ call.response.error = "Username already exists"
    /\ call.response.access_token = NoToken

====
